---------------------------- MODULE Spec2Model ----------------------------
(***************************************************************************)
(* Model of the scavenger-hunt kiosk firmware (src/src/main.cpp): the      *)
(* persistent store with its temp-file/rename discipline, the boot         *)
(* sequence with the firmware-marker reset, the operator guard, the mode   *)
(* switch and the scoring engine.                                          *)
(*                                                                         *)
(* Strings the code inspects character by character (secrets, credential   *)
(* payloads, codewords, names, PINs, network names) are sequences of byte  *)
(* codes.  Strings the code only compares or copies (ids, firmware         *)
(* markers, file paths, the setup network's name and secret) are TLA+      *)
(* strings.  JSON values are tagged records, so a missing or wrongly typed *)
(* member takes the default exactly where the code's `v | def` does.       *)
(***************************************************************************)
EXTENDS Integers, Sequences, FiniteSets, TLC

VARIABLES
    FW_VERSION,     \* marker of the firmware image now in flash (main.cpp:28)
    pc,             \* where the single request-handling context stands
    wr,             \* the writeStringToFile call in progress, if any
    loc,            \* locals of loadAll (have, m, ah, storedVer) and, in a handler, the answer it will send (out)
    g_config,       \* Config g_config (main.cpp:123-131)
    g_checkpoints,  \* std::vector<Checkpoint> (main.cpp:80)
    g_teams,        \* std::vector<Team> (main.cpp:81)
    fs,             \* LittleFS: path -> content
    ap,             \* the soft AP now broadcast and the DNS redirector
    resp,           \* the response sent by the last completed handler
    clock,          \* millis()/1000 since this boot; it advances only where
                    \* Tick is among the steps (the game in progress)
    credited,       \* history, per team id: the last award made since the
                    \* catalog was last replaced, kept until a reset or a
                    \* power loss that interrupts a request
    hist            \* history of the device: heading is the mode a transition
                    \* was switching the network to when power was lost, until
                    \* the next boot completes; secret tells that a request or
                    \* a boot has completed with admin_hash set, with no
                    \* factory reset and no new firmware image since

vars == <<FW_VERSION, pc, wr, loc, g_config, g_checkpoints, g_teams, fs, ap,
          resp, clock, credited, hist>>

---------------------------------------------------------------------------
(* Bounds of the model.                                                    *)

\* team names offered to register, hence teams in the roster
MaxTeams == 1

\* seconds since boot up to which the game in progress lets time pass
MaxClock == 1
\* items of a catalog and teams of a roster whose save and load are compared
MaxStored == 2
\* length of the strings consttime_eq is applied to
MaxLen == 2

---------------------------------------------------------------------------
(* Program constants.                                                      *)

TOKEN_MAXLEN == 64
NAME_MAXLEN == 40
PIN_MINLEN == 4
PIN_MAXLEN == 6
LEADERBOARD_SIZE == 20
MIN_PASS_LEN == 6
SSID_MAXLEN == 31
DEFAULT_POINTS == 10

RESET_ADMIN_ON_VERSION == TRUE
FORCE_SETUP_MODE_ON_VERSION == TRUE
WIPE_CHECKPOINTS_ON_VERSION == FALSE
WIPE_TEAMS_ON_VERSION == FALSE

DEFAULT_SETUP_SSID == "SCAVENGER-SETUP"
DEFAULT_SETUP_PASS == "organizer123"
\* "SCAVENGER"
DEFAULT_GAME_SSID == <<83, 67, 65, 86, 69, 78, 71, 69, 82>>
DEFAULT_GAME_PASS == ""

FILE_CONFIG == "/config.json"
FILE_CHECKPOINTS == "/checkpoints.json"
FILE_TEAMS == "/teams.json"

MODE_SETUP == "MODE_SETUP"
MODE_GAME == "MODE_GAME"

---------------------------------------------------------------------------
(* Byte strings.                                                           *)

Min(a, b) == IF a < b THEN a ELSE b
Max(a, b) == IF a > b THEN a ELSE b

\* String::substring(from, to) with 0-based from, exclusive to
substring(s, from, to) == SubSeq(s, from + 1, Min(to, Len(s)))

\* isspace() of the C locale
isspace(c) == c \in {32, 9, 10, 11, 12, 13}

RECURSIVE ltrim(_)
ltrim(s) == IF s # <<>> /\ isspace(Head(s)) THEN ltrim(Tail(s)) ELSE s

RECURSIVE rtrim(_)
rtrim(s) ==
    IF s # <<>> /\ isspace(s[Len(s)]) THEN rtrim(SubSeq(s, 1, Len(s) - 1)) ELSE s

\* String::trim()
trim(s) == rtrim(ltrim(s))

\* tolower() of the C locale
tolower(c) == IF c >= 65 /\ c <= 90 THEN c + 32 ELSE c

\* String::toLowerCase()
toLowerCase(s) == [i \in 1..Len(s) |-> tolower(s[i])]

\* String::indexOf(ch): 0-based index of the first occurrence, -1 if none
indexOf(s, ch) ==
    IF \E i \in 1..Len(s) : s[i] = ch
    THEN (CHOOSE i \in 1..Len(s) : s[i] = ch /\ \A j \in 1..(i - 1) : s[j] # ch) - 1
    ELSE -1

\* (ca ^ cb) and diff |= x on bytes, as far as consttime_eq looks at them:
\* 0 or not 0.  x ^ y is 0 exactly when x = y; x | y is 0 exactly when both are
xorByte(ca, cb) == IF ca = cb THEN 0 ELSE 1
orByte(x, y) == IF x = 0 /\ y = 0 THEN 0 ELSE 1

\* the loop of consttime_eq from position i on (1-based), diff so far
RECURSIVE consttime_diff(_, _, _, _)
consttime_diff(a, b, i, diff) ==
    IF i > Max(Len(a), Len(b)) THEN diff
    ELSE LET ca == IF i <= Len(a) THEN a[i] ELSE 0
             cb == IF i <= Len(b) THEN b[i] ELSE 0
         IN  consttime_diff(a, b, i + 1, orByte(diff, xorByte(ca, cb)))

consttime_eq(a, b) == consttime_diff(a, b, 1, 0) = 0 /\ Len(a) = Len(b)

\* seeded fault: the loop is left at the first position where a and b differ
RECURSIVE consttime_stepsEarlyExit(_, _, _, _)
consttime_stepsEarlyExit(a, b, i, n) ==
    IF i > Max(Len(a), Len(b)) THEN n
    ELSE LET ca == IF i <= Len(a) THEN a[i] ELSE 0
             cb == IF i <= Len(b) THEN b[i] ELSE 0
         IN  IF ca # cb THEN n + 1
             ELSE consttime_stepsEarlyExit(a, b, i + 1, n + 1)

\* the same loop, counting: the number of times its body (one ca ^ cb) has
\* run when it is left, from position i on with n runs so far
RECURSIVE consttime_steps(_, _, _, _)
consttime_steps(a, b, i, n) ==
    IF i > Max(Len(a), Len(b)) THEN n
    ELSE consttime_steps(a, b, i + 1, n + 1)

\* sha256Hex: a one-way digest; the model keeps it injective and never empty
\* by tagging the input with '#'
sha256Hex(in) == <<35>> \o in

\* snprintf(buf, 16, "%s%03u", prefix, r % 1000)
Pad3(n) ==
    IF n < 10 THEN "00" \o ToString(n)
    ELSE IF n < 100 THEN "0" \o ToString(n) ELSE ToString(n)

newId(prefix, r) == prefix \o Pad3(r % 1000)

saneChar(c) ==
    \/ c >= 65 /\ c <= 90
    \/ c >= 97 /\ c <= 122
    \/ c >= 48 /\ c <= 57
    \/ c \in {45, 95, 47, 32}

\* seeded fault: only the length of a codeword is looked at
saneTokenAnyChar(s) ==
    /\ Len(s) >= 1
    /\ Len(s) <= TOKEN_MAXLEN

saneToken(s) ==
    /\ Len(s) >= 1
    /\ Len(s) <= TOKEN_MAXLEN
    /\ \A i \in 1..Len(s) : saneChar(s[i])

RECURSIVE sanitizeLoop(_, _, _)
sanitizeLoop(s, i, out) ==
    IF i > Len(s) \/ Len(out) >= NAME_MAXLEN THEN out
    ELSE LET c == s[i]
         IN  IF c \in {60, 62, 34, 39, 38} \/ c < 32
             THEN sanitizeLoop(s, i + 1, out)
             ELSE sanitizeLoop(s, i + 1, Append(out, c))

sanitizeName(s) == trim(sanitizeLoop(s, 1, <<>>))

---------------------------------------------------------------------------
(* JSON values and documents.                                              *)

JNull == [t |-> "null"]
JStr(s) == [t |-> "str", v |-> s]
JInt(n) == [t |-> "int", v |-> n]
JBool(b) == [t |-> "bool", v |-> b]

\* JV_toString(v, def): the string, or def when v is missing or no string
JV_toString(v, def) == IF v.t = "str" THEN v.v ELSE def
\* int(v | def)
JV_toInt(v, def) == IF v.t = "int" THEN v.v ELSE def
\* bool(v | def)
JV_toBool(v, def) == IF v.t = "bool" THEN v.v ELSE def

\* a request body that deserializeJson rejects
BadJson == [t |-> "bad"]
JObj(o) == [t |-> "obj", v |-> o]
JArr(a) == [t |-> "arr", v |-> a]

\* d.as<JsonArray>(): the elements, none when the document is no array
asArray(d) == IF d.t = "arr" THEN d.v ELSE <<>>


\* d["k"]: the member, null when d is no object or has no such member
Member(d, k) == IF d.t = "obj" /\ k \in DOMAIN d.v THEN d.v[k] ELSE JNull

---------------------------------------------------------------------------
(* The file system.  A file holds a complete serialized document, a strict *)
(* prefix of one (a write that was cut short), or bytes that never were a  *)
(* document (damage from outside the program).                             *)

Absent == [kind |-> "absent"]
Full(doc) == [kind |-> "full", doc |-> doc]
Partial == [kind |-> "partial"]
Corrupt == [kind |-> "corrupt"]

Docs == {FILE_CONFIG, FILE_CHECKPOINTS, FILE_TEAMS}
\* seeded fault: the new bytes are written straight over the final path
TmpOfInPlace(path) == path
TmpOf(path) == path \o ".tmp"
Paths == Docs \cup {TmpOf(p) : p \in Docs}

\* LittleFS.format()
Formatted == [p \in Paths |-> Absent]

\* readFileToString followed by deserializeJson: the document, or "none"
\* when the file cannot be opened or does not parse
NoDoc == [t |-> "none"]
readDocument(f, path) == IF f[path].kind = "full" THEN f[path].doc ELSE NoDoc

\* writeStringToFile, one step at a time; power can fail between any two
NoWrite == [step |-> "none"]
BeginWrite(path, data) == [step |-> "open", path |-> path, data |-> data]

\* File t = LittleFS.open(tmp, "w"): the temp file exists; until close() any
\* prefix of the bytes of t.print(data) may be what the flash holds
OpenedTmp(f, w) == [f EXCEPT ![TmpOf(w.path)] = Partial]
\* t.print(data); t.close(); n == data.length()
PrintedTmp(f, w) == [f EXCEPT ![TmpOf(w.path)] = Full(w.data)]
\* LittleFS.remove(path)
RemovedOld(f, w) == [f EXCEPT ![w.path] = Absent]
\* LittleFS.rename(tmp, path)
Renamed(f, w) == [f EXCEPT ![w.path] = f[TmpOf(w.path)], ![TmpOf(w.path)] = Absent]

WriteStep(f, w) ==
    CASE w.step = "open" -> OpenedTmp(f, w)
      [] w.step = "print" -> PrintedTmp(f, w)
      [] w.step = "remove" -> RemovedOld(f, w)
      [] w.step = "rename" -> Renamed(f, w)

NextStep(w) ==
    CASE w.step = "open" -> [w EXCEPT !.step = "print"]
      [] w.step = "print" -> [w EXCEPT !.step = "remove"]
      [] w.step = "remove" -> [w EXCEPT !.step = "rename"]
      [] w.step = "rename" -> NoWrite

\* one step of the write in progress
writeStringToFile ==
    /\ wr.step # "none"
    /\ fs' = WriteStep(fs, wr)
    /\ wr' = NextStep(wr)
    /\ UNCHANGED <<FW_VERSION, pc, loc, g_config, g_checkpoints, g_teams, ap,
                   resp, clock, credited, hist>>

---------------------------------------------------------------------------
(* Configuration document.                                                 *)

DefaultConfig ==
    [admin_hash |-> <<>>,
     setup_ssid |-> DEFAULT_SETUP_SSID,
     setup_pass |-> DEFAULT_SETUP_PASS,
     game_ssid |-> DEFAULT_GAME_SSID,
     game_pass |-> DEFAULT_GAME_PASS,
     fw_version |-> "",
     mode |-> MODE_SETUP]

\* the document saveConfig serializes
ConfigDoc(c) ==
    JObj([admin_hash |-> JStr(c.admin_hash),
          setup_ssid |-> JStr(c.setup_ssid),
          setup_pass |-> JStr(c.setup_pass),
          game_ssid |-> JStr(c.game_ssid),
          game_pass |-> JStr(""),
          mode |-> JStr(IF c.mode = MODE_SETUP THEN "setup" ELSE "game"),
          fw_version |-> JStr(c.fw_version)])

\* seeded fault: the configuration is never written
saveConfigNever(c) == NoWrite
saveConfig(c) == BeginWrite(FILE_CONFIG, ConfigDoc(c))

\* seeded fault: the stored game_pass is taken over instead of being ignored
loadConfigKeepsPass(c, doc) ==
    [c EXCEPT
        !.admin_hash = JV_toString(Member(doc, "admin_hash"), <<>>),
        !.setup_ssid = JV_toString(Member(doc, "setup_ssid"), DEFAULT_SETUP_SSID),
        !.setup_pass = JV_toString(Member(doc, "setup_pass"), DEFAULT_SETUP_PASS),
        !.game_ssid = JV_toString(Member(doc, "game_ssid"), DEFAULT_GAME_SSID),
        !.game_pass = JV_toString(Member(doc, "game_pass"), ""),
        !.fw_version = JV_toString(Member(doc, "fw_version"), ""),
        !.mode = IF JV_toString(Member(doc, "mode"), "setup") = "game"
                 THEN MODE_GAME ELSE MODE_SETUP]

\* loadConfig on a document that parsed: the fields it assigns to g_config,
\* with outMode in .mode
loadConfig(c, doc) ==
    [c EXCEPT
        !.admin_hash = JV_toString(Member(doc, "admin_hash"), <<>>),
        !.setup_ssid = JV_toString(Member(doc, "setup_ssid"), DEFAULT_SETUP_SSID),
        !.setup_pass = JV_toString(Member(doc, "setup_pass"), DEFAULT_SETUP_PASS),
        !.game_ssid = JV_toString(Member(doc, "game_ssid"), DEFAULT_GAME_SSID),
        !.game_pass = "",
        !.fw_version = JV_toString(Member(doc, "fw_version"), ""),
        !.mode = IF JV_toString(Member(doc, "mode"), "setup") = "game"
                 THEN MODE_GAME ELSE MODE_SETUP]

---------------------------------------------------------------------------
(* Catalog and roster documents.                                           *)

CheckpointDoc(c) ==
    JObj([id |-> JStr(c.id), name |-> JStr(c.name),
          token_text |-> JStr(c.token_text), points |-> JInt(c.points)])

CheckpointsDoc(cs) == JArr([i \in 1..Len(cs) |-> CheckpointDoc(cs[i])])

saveCheckpoints(cs) == BeginWrite(FILE_CHECKPOINTS, CheckpointsDoc(cs))

\* seeded fault: points of 0 are taken for missing points
loadCheckpointNoZero(o) ==
    [id |-> JV_toString(Member(o, "id"), ""),
     name |-> JV_toString(Member(o, "name"), <<>>),
     token_text |-> JV_toString(Member(o, "token_text"), <<>>),
     points |-> IF JV_toInt(Member(o, "points"), 0) = 0 THEN DEFAULT_POINTS
                ELSE JV_toInt(Member(o, "points"), DEFAULT_POINTS)]

loadCheckpoint(o) ==
    [id |-> JV_toString(Member(o, "id"), ""),
     name |-> JV_toString(Member(o, "name"), <<>>),
     token_text |-> JV_toString(Member(o, "token_text"), <<>>),
     points |-> JV_toInt(Member(o, "points"), DEFAULT_POINTS)]

\* loadCheckpoints: g_checkpoints after the call
loadCheckpoints(f) ==
    LET doc == readDocument(f, FILE_CHECKPOINTS)
        arr == asArray(doc)
    IN  [i \in 1..Len(arr) |-> loadCheckpoint(arr[i])]

TeamDoc(t) ==
    JObj([id |-> JStr(t.id), name |-> JStr(t.name), pin_hash |-> JStr(t.pin_hash),
          points |-> JInt(t.points), created_at |-> JInt(t.created_at),
          found |-> JArr([i \in 1..Len(t.found) |-> JStr(t.found[i])])])

TeamsDoc(ts) == JArr([i \in 1..Len(ts) |-> TeamDoc(ts[i])])

saveTeams(ts) == BeginWrite(FILE_TEAMS, TeamsDoc(ts))

loadTeam(o) ==
    [id |-> JV_toString(Member(o, "id"), ""),
     name |-> JV_toString(Member(o, "name"), <<>>),
     pin_hash |-> JV_toString(Member(o, "pin_hash"), <<>>),
     points |-> JV_toInt(Member(o, "points"), 0),
     created_at |-> JV_toInt(Member(o, "created_at"), 0),
     found |-> LET f == asArray(Member(o, "found"))
               IN  [i \in 1..Len(f) |-> JV_toString(f[i], "")]]

\* loadTeams: g_teams after the call
loadTeams(f) ==
    LET doc == readDocument(f, FILE_TEAMS)
        arr == asArray(doc)
    IN  [i \in 1..Len(arr) |-> loadTeam(arr[i])]

---------------------------------------------------------------------------
(* The radio and the DNS redirector.                                       *)

NoAP == [net |-> "none", dns |-> FALSE]

\* WiFi.softAP(setup_ssid, setup_pass, 6, false, 8); startCaptivePortalDNSOnly()
startSetupAP(c) ==
    [net |-> "setup", ssid |-> c.setup_ssid, secured |-> TRUE,
     pass |-> c.setup_pass, max_clients |-> 8, dns |-> TRUE]

\* WiFi.softAP(game_ssid, NULL, 6, false, 12); startCaptivePortalDNSOnly()
startGameAP(c) ==
    [net |-> "game", ssid |-> c.game_ssid, secured |-> FALSE,
     max_clients |-> 12, dns |-> TRUE]

\* seeded fault: whatever the mode, the setup network is brought up
switchAPNowSetupOnly(c, m) == startSetupAP(c)

\* softAPdisconnect; delay; stopCaptivePortalDNSOnly; start the AP of mode m
switchAPNow(c, m) == IF m = MODE_SETUP THEN startSetupAP(c) ELSE startGameAP(c)

---------------------------------------------------------------------------
(* Power, firmware images and the boot sequence.                           *)

\* build markers (__DATE__ " " __TIME__) of the images the model flashes
Versions == {"v1", "v2"}
\* marker of an earlier image that may have written the configuration
LegacyVersion == "v0"

NoLoc == [fn |-> "none"]
NoResp == [code |-> 0, kind |-> "none"]
NoCredit == [item |-> ""]
NoHist == [heading |-> "none", secret |-> FALSE]

\* the history once a boot or a request has completed with configuration c
Completed(c) == [heading |-> "none", secret |-> Len(c.admin_hash) > 0]

\* the statically initialised globals, before setup() runs
PoweredOff ==
    /\ pc' = "off"
    /\ wr' = NoWrite
    /\ loc' = NoLoc
    /\ g_config' = DefaultConfig
    /\ g_checkpoints' = <<>>
    /\ g_teams' = <<>>
    /\ ap' = NoAP
    /\ clock' = 0

\* The flash after a power loss.  A temp file left behind by an interrupted
\* write is never read again: the next write to that path truncates it on
\* open (main.cpp:153) before anything else looks at it.  The model keeps
\* only that it exists, with whatever bytes it has.
Leftover(f) ==
    [p \in Paths |-> IF p \notin Docs /\ f[p] # Absent THEN Partial ELSE f[p]]

\* power is lost, or the device is reset, at any point of its operation
PowerLoss ==
    /\ pc # "off"
    /\ PoweredOff
    /\ resp' = NoResp
    /\ credited' = IF pc = "idle" THEN credited
                   ELSE [id \in DOMAIN credited |-> NoCredit]
    /\ fs' = Leftover(fs)
    /\ hist' = [hist EXCEPT !.heading = IF pc = "switchAP" /\ wr.step = "none"
                                        THEN g_config.mode ELSE "none"]
    /\ UNCHANGED FW_VERSION

\* a different firmware image is flashed while the device is down
Flash ==
    /\ pc = "off"
    /\ \E v \in Versions \ {FW_VERSION} : FW_VERSION' = v
    /\ hist' = NoHist
    /\ UNCHANGED <<pc, wr, loc, g_config, g_checkpoints, g_teams, fs, ap, resp,
                   clock, credited>>

\* seeded fault: a marker change records the new marker and resets nothing
versionResetKeepsSecret(c) == [c EXCEPT !.fw_version = FW_VERSION]

\* applyVersionResetIfNeeded: the configuration it leaves in g_config
versionReset(c) ==
    [c EXCEPT
        !.admin_hash = IF RESET_ADMIN_ON_VERSION THEN <<>> ELSE @,
        !.mode = IF FORCE_SETUP_MODE_ON_VERSION THEN MODE_SETUP ELSE @,
        !.fw_version = FW_VERSION]

\* applyVersionResetIfNeeded: the files it removes
versionWipe(f) ==
    [f EXCEPT
        ![FILE_CHECKPOINTS] = IF WIPE_CHECKPOINTS_ON_VERSION THEN Absent ELSE @,
        ![FILE_TEAMS] = IF WIPE_TEAMS_ON_VERSION THEN Absent ELSE @]

applyVersionResetIfNeeded(c, storedVersion) ==
    IF storedVersion = FW_VERSION
    THEN /\ g_config' = c
         /\ wr' = NoWrite
         /\ fs' = fs
    ELSE /\ g_config' = versionReset(c)
         /\ wr' = saveConfig(versionReset(c))
         /\ fs' = versionWipe(fs)

\* setup() up to the end of loadAll's configuration branch
loadAll ==
    /\ pc = "off"
    /\ pc' = "loadAll"
    /\ LET doc == readDocument(fs, FILE_CONFIG)
           have == doc.t # "none"
           c == loadConfig(g_config, doc)
       IN  IF ~have
           THEN /\ g_config' = [g_config EXCEPT !.admin_hash = <<>>,
                                                !.mode = MODE_SETUP,
                                                !.fw_version = FW_VERSION]
                /\ wr' = saveConfig(g_config')
                /\ fs' = fs
                /\ loc' = [fn |-> "loadAll", have |-> FALSE]
           ELSE /\ applyVersionResetIfNeeded(c, c.fw_version)
                /\ loc' = [fn |-> "loadAll", have |-> TRUE, m |-> c.mode,
                           ah |-> c.admin_hash, storedVer |-> c.fw_version]
    /\ UNCHANGED <<FW_VERSION, g_checkpoints, g_teams, ap, resp, clock, credited, hist>>

\* seeded fault: setup() without its forced SETUP mode
setupKeepsMode ==
    /\ pc = "loadAll"
    /\ wr.step = "none"
    /\ pc' = "setup"
    /\ g_checkpoints' = loadCheckpoints(fs)
    /\ g_teams' = loadTeams(fs)
    /\ UNCHANGED <<FW_VERSION, loc, g_config, wr, fs, ap, resp, clock, credited, hist>>

\* the rest of loadAll (the data files), then setup()'s forced SETUP mode
setup ==
    /\ pc = "loadAll"
    /\ wr.step = "none"
    /\ pc' = "setup"
    /\ g_checkpoints' = loadCheckpoints(fs)
    /\ g_teams' = loadTeams(fs)
    /\ IF Len(g_config.admin_hash) = 0
       THEN /\ g_config' = [g_config EXCEPT !.mode = MODE_SETUP]
            /\ wr' = saveConfig(g_config')
       ELSE /\ UNCHANGED <<g_config, wr>>
    /\ UNCHANGED <<FW_VERSION, loc, fs, ap, resp, clock, credited, hist>>

\* enterSetupMode / enterGameMode, setupRoutes, server.begin
serverBegin ==
    /\ pc = "setup"
    /\ wr.step = "none"
    /\ pc' = "idle"
    /\ ap' = IF g_config.mode = MODE_SETUP
             THEN startSetupAP(g_config) ELSE startGameAP(g_config)
    /\ loc' = NoLoc
    /\ hist' = Completed(g_config)
    /\ UNCHANGED <<FW_VERSION, wr, g_config, g_checkpoints, g_teams, fs, resp,
                   clock, credited>>

---------------------------------------------------------------------------
(* Responses and the shape shared by the request handlers.                 *)

Resp(code, kind, data) == [code |-> code, kind |-> kind, data |-> data]
Error(code, kind) == [code |-> code, kind |-> kind]

\* the server is up and the previous response has reached its client
Serving == pc = "idle" /\ resp = NoResp

\* req->send(...) and return: nothing but the response changes
Reply(r) ==
    /\ Serving
    /\ resp' = r
    /\ UNCHANGED <<FW_VERSION, pc, wr, loc, g_config, g_checkpoints, g_teams,
                   fs, ap, clock, credited, hist>>

\* the handler has changed memory and calls a save; `at` names the code that
\* follows the save and r is the response that code sends
SaveThen(w, at, r) ==
    /\ Serving
    /\ wr' = w
    /\ pc' = at
    /\ loc' = [fn |-> "handler", out |-> r]

\* the save has returned (its result is not looked at); the response goes out
sendJSON ==
    /\ pc = "respond"
    /\ wr.step = "none"
    /\ resp' = loc.out
    /\ pc' = "idle"
    /\ loc' = NoLoc
    /\ hist' = Completed(g_config)
    /\ UNCHANGED <<FW_VERSION, wr, g_config, g_checkpoints, g_teams, fs, ap,
                   clock, credited>>

\* the client has the response; the next request can be taken
Receive ==
    /\ resp # NoResp
    /\ resp' = NoResp
    /\ UNCHANGED <<FW_VERSION, pc, wr, loc, g_config, g_checkpoints, g_teams,
                   fs, ap, clock, credited, hist>>

---------------------------------------------------------------------------
(* Operator authentication (HTTP Basic).                                   *)

\* the Authorization header: none, one that does not start with "Basic ",
\* or "Basic " followed by text that base64-decodes (to .bytes) or does not
NoHeader == [t |-> "none"]
OtherScheme == [t |-> "other"]
BasicUndecodable == [t |-> "basic", valid |-> FALSE]
Basic(bytes) == [t |-> "basic", valid |-> TRUE, bytes |-> bytes]

NoCredential == [ok |-> FALSE]

parseBasicAuth(auth) ==
    IF auth.t # "basic" THEN NoCredential
    ELSE IF ~auth.valid \/ Len(auth.bytes) = 0 THEN NoCredential
    ELSE LET decoded == auth.bytes
             colon == indexOf(decoded, 58)
         IN  IF colon < 0 THEN NoCredential
             ELSE [ok |-> TRUE,
                   user |-> substring(decoded, 0, colon),
                   pass |-> substring(decoded, colon + 1, Len(decoded))]

Challenge ==
    [code |-> 401, kind |-> "challenge", www_authenticate |-> "Basic"]

\* seeded fault: any well-formed credential is taken, whatever its secret
adminGuardAnyCredential(auth) ==
    Len(g_config.admin_hash) = 0 \/ parseBasicAuth(auth).ok

\* seeded fault: the guard lets every request through
adminGuardOpen(auth) == TRUE

\* adminGuard: TRUE when the request may proceed
adminGuard(auth) ==
    \/ Len(g_config.admin_hash) = 0
    \/ LET cred == parseBasicAuth(auth)
       IN  cred.ok /\ consttime_eq(sha256Hex(cred.pass), g_config.admin_hash)

---------------------------------------------------------------------------
(* Inputs of the operator's requests.                                      *)

\* "ab:123", "ab:12", "ab:124"
PASS_GOOD == <<97, 98, 58, 49, 50, 51>>
PASS_WEAK == <<97, 98, 58, 49, 50>>
PASS_WRONG == <<97, 98, 58, 49, 50, 52>>

\* "u:" followed by the secret
WithUser(pass) == <<117, 58>> \o pass

Headers ==
    {NoHeader, OtherScheme, BasicUndecodable, Basic(<<>>),
     Basic(WithUser(PASS_GOOD)), Basic(WithUser(PASS_WRONG)),
     Basic(<<58>> \o PASS_GOOD), Basic(PASS_GOOD), Basic(<<117, 49, 50, 51>>)}

SetupBodies ==
    {BadJson, JObj([pass |-> JStr(PASS_GOOD)]), JObj([pass |-> JStr(PASS_WEAK)]),
     JObj([pass |-> JInt(123456)])}

\* "HUNT"
SSID_NEW == <<72, 85, 78, 84>>
SsidBodies == {BadJson, JObj([ssid |-> JStr(SSID_NEW)]), JObj([ssid |-> JStr(<<>>)])}

ModeBodies ==
    {BadJson, JObj([mode |-> JStr("setup")]), JObj([mode |-> JStr("game")]),
     JObj([mode |-> JStr("party")])}

ResetBodies ==
    {BadJson, JObj([wipe_all |-> JBool(TRUE)]), JObj([wipe_all |-> JBool(FALSE)]),
     JObj([wipe_all |-> JStr(<<>>)])}

---------------------------------------------------------------------------
(* Operator requests.                                                      *)

\* GET /api/admin/status
AdminStatus(auth) ==
    /\ Serving
    /\ IF ~adminGuard(auth) THEN Reply(Challenge)
       ELSE Reply(Resp(200, "status",
                       [mode |-> IF g_config.mode = MODE_GAME THEN "game" ELSE "setup",
                        fw_version |-> FW_VERSION,
                        stored_version |-> g_config.fw_version,
                        game_ssid |-> g_config.game_ssid]))

\* seeded fault: the handler without its already_configured check
AdminSetupOverwrites(body) ==
    /\ Serving
    /\ IF body.t = "bad" THEN Reply(Error(400, "bad_json"))
       ELSE LET pass == JV_toString(Member(body, "pass"), <<>>)
            IN  IF Len(pass) < MIN_PASS_LEN THEN Reply(Error(400, "weak_pass"))
                ELSE /\ g_config' = [g_config EXCEPT !.admin_hash = sha256Hex(pass)]
                     /\ SaveThen(saveConfig(g_config'), "respond",
                                 Resp(200, "ok", [op |-> "setup"]))
                     /\ UNCHANGED <<FW_VERSION, g_checkpoints, g_teams, fs, ap, resp,
                                    clock, credited, hist>>

\* POST /api/admin/setup
AdminSetup(body) ==
    /\ Serving
    /\ IF Len(g_config.admin_hash) > 0 THEN Reply(Error(400, "already_configured"))
       ELSE IF body.t = "bad" THEN Reply(Error(400, "bad_json"))
       ELSE LET pass == JV_toString(Member(body, "pass"), <<>>)
            IN  IF Len(pass) < MIN_PASS_LEN THEN Reply(Error(400, "weak_pass"))
                ELSE /\ g_config' = [g_config EXCEPT !.admin_hash = sha256Hex(pass)]
                     /\ SaveThen(saveConfig(g_config'), "respond",
                                 Resp(200, "ok", [op |-> "setup"]))
                     /\ UNCHANGED <<FW_VERSION, g_checkpoints, g_teams, fs, ap, resp,
                                    clock, credited, hist>>

\* POST /api/admin/game_ssid
AdminGameSsid(auth, body) ==
    /\ Serving
    /\ IF ~adminGuard(auth) THEN Reply(Challenge)
       ELSE IF body.t = "bad" THEN Reply(Error(400, "bad_json"))
       ELSE LET ssid == substring(JV_toString(Member(body, "ssid"), <<>>), 0, SSID_MAXLEN)
            IN  IF Len(ssid) < 1 THEN Reply(Error(400, "empty_ssid"))
                ELSE /\ g_config' = [g_config EXCEPT !.game_ssid = ssid]
                     /\ SaveThen(saveConfig(g_config'), "respond",
                                 Resp(200, "ok", [op |-> "game_ssid", game_ssid |-> ssid]))
                     /\ UNCHANGED <<FW_VERSION, g_checkpoints, g_teams, fs, ap, resp,
                                    clock, credited, hist>>

\* POST /api/admin/mode, up to the call of switchAPNow
AdminMode(auth, body) ==
    /\ Serving
    /\ IF ~adminGuard(auth) THEN Reply(Challenge)
       ELSE IF body.t = "bad" THEN Reply(Error(400, "bad_json"))
       ELSE LET m == JV_toString(Member(body, "mode"), "")
                ok == Resp(200, "ok", [op |-> "mode", mode |-> m])
            IN  IF m \in {"setup", "game"}
                THEN /\ g_config' = [g_config EXCEPT
                           !.mode = IF m = "setup" THEN MODE_SETUP ELSE MODE_GAME]
                     /\ SaveThen(saveConfig(g_config'), "switchAP", ok)
                     /\ UNCHANGED <<FW_VERSION, g_checkpoints, g_teams, fs, ap, resp,
                                    clock, credited, hist>>
                ELSE Reply(ok)

\* POST /api/admin/mode from switchAPNow on
AdminModeSwitch ==
    /\ pc = "switchAP"
    /\ wr.step = "none"
    /\ ap' = switchAPNow(g_config, g_config.mode)
    /\ resp' = loc.out
    /\ pc' = "idle"
    /\ loc' = NoLoc
    /\ hist' = Completed(g_config)
    /\ UNCHANGED <<FW_VERSION, wr, g_config, g_checkpoints, g_teams, fs, clock,
                   credited>>

\* factoryReset(wipeAll) up to its saveConfig
factoryReset(wipeAll) ==
    /\ fs' = IF wipeAll THEN Formatted ELSE fs
    /\ g_config' = [g_config EXCEPT
            !.admin_hash = <<>>,
            !.mode = MODE_SETUP,
            !.fw_version = IF wipeAll THEN FW_VERSION ELSE @]
    /\ wr' = saveConfig(g_config')

\* POST /api/admin/factory_reset, up to the return of factoryReset
AdminFactoryReset(auth, body) ==
    /\ Serving
    /\ IF ~adminGuard(auth) THEN Reply(Challenge)
       ELSE IF body.t = "bad" THEN Reply(Error(400, "bad_json"))
       ELSE LET wipeAll == JV_toBool(Member(body, "wipe_all"), FALSE)
            IN  /\ Serving
                /\ factoryReset(wipeAll)
                /\ pc' = "restart"
                /\ loc' = [fn |-> "handler",
                           out |-> Resp(200, "ok", [op |-> "factory_reset",
                                                    wipe_all |-> wipeAll])]
                /\ hist' = NoHist
                /\ UNCHANGED <<FW_VERSION, g_checkpoints, g_teams, ap, resp, clock,
                               credited>>

\* POST /api/admin/factory_reset: the response, delay(250), ESP.restart()
AdminFactoryRestart ==
    /\ pc = "restart"
    /\ wr.step = "none"
    /\ resp' = loc.out
    /\ PoweredOff
    /\ credited' = [id \in DOMAIN credited |-> NoCredit]
    /\ UNCHANGED <<FW_VERSION, fs, hist>>

---------------------------------------------------------------------------
(* Catalog and roster lookups.                                             *)

\* values esp_random() takes in the model
Rand == {1, 2}

\* a loop that returns at its first hit: the least index in hits, 0 when
\* there is none
FirstIndex(hits) ==
    IF hits = {} THEN 0 ELSE CHOOSE i \in hits : \A j \in hits : i <= j

findTeamById(ts, id) == FirstIndex({i \in 1..Len(ts) : ts[i].id = id})
\* seeded fault: no name is ever found taken
findTeamByNameNever(ts, nm) == 0
findTeamByName(ts, nm) == FirstIndex({i \in 1..Len(ts) : ts[i].name = nm})
findCheckpointById(cs, id) == FirstIndex({i \in 1..Len(cs) : cs[i].id = id})

RECURSIVE sumFound(_, _, _)
sumFound(cs, found, i) ==
    IF i > Len(found) THEN 0
    ELSE LET k == findCheckpointById(cs, found[i])
         IN  (IF k # 0 THEN cs[k].points ELSE 0) + sumFound(cs, found, i + 1)

\* updatePointsFromFound(t): the team with its points recomputed
updatePointsFromFound(cs, t) == [t EXCEPT !.points = sumFound(cs, t.found, 1)]

\* seeded fault: the found list is never consulted
teamFoundHasNever(t, chkId) == FALSE
teamFoundHas(t, chkId) == \E i \in 1..Len(t.found) : t.found[i] = chkId

\* teamAddFound(t, chkId, points): the team afterwards
teamAddFound(cs, t, chkId) ==
    IF teamFoundHas(t, chkId) THEN t
    ELSE updatePointsFromFound(cs, [t EXCEPT !.found = Append(@, chkId)])

\* the scan of submit_code: index of the first item whose codeword equals the
\* token or equals it once both are lower-cased, 0 when there is none
matchToken(cs, token) ==
    FirstIndex({i \in 1..Len(cs) :
                  \/ consttime_eq(cs[i].token_text, token)
                  \/ toLowerCase(cs[i].token_text) = toLowerCase(token)})

---------------------------------------------------------------------------
(* Inputs of the catalog and player requests.                              *)

\* " Ab ", "AB", "zz"
TOK_PADDED == <<32, 65, 98, 32>>
TOK_AB == <<65, 66>>
TOK_zz == <<122, 122>>
\* "Oak"
NAME_OAK == <<79, 97, 107>>
\* "1234", "123"
PIN_OK == <<49, 50, 51, 52>>
PIN_SHORT == <<49, 50, 51>>

Entry(id, name, token, points) ==
    JObj([id |-> id, name |-> JStr(name), token_text |-> JStr(token),
          points |-> points])

\* team names "A", "B", ... of the model
TeamNames(n) == {<<64 + i>> : i \in 1..n}

RegisterBodies(n) ==
    {BadJson} \cup
    {JObj([team_name |-> JStr(nm), pin |-> JStr(p)]) :
        nm \in TeamNames(n) \cup {<<>>}, p \in {PIN_OK, PIN_SHORT}}

TeamIds == {newId("T", r) : r \in Rand}

\* the values esp_random() returns during one catalog request
Draws(body) == [1..Len(asArray(body)) -> Rand]

---------------------------------------------------------------------------
(* Catalog replacement and player requests.                                *)

\* the loop body of POST /api/admin/checkpoints for one entry; r is the value
\* esp_random() returns if the entry needs an id
parseEntry(o, r) ==
    LET id == JV_toString(Member(o, "id"), "")
    IN  [id |-> IF id = "" THEN newId("C", r) ELSE id,
         name |-> sanitizeName(JV_toString(Member(o, "name"), <<>>)),
         token_text |-> trim(JV_toString(Member(o, "token_text"), <<>>)),
         points |-> JV_toInt(Member(o, "points"), DEFAULT_POINTS)]

\* g_checkpoints after the loop
parseCatalog(body, rs) ==
    LET arr == asArray(body)
        parsed == [i \in 1..Len(arr) |-> parseEntry(arr[i], rs[i])]
        Sane(c) == saneToken(c.token_text)
    IN  SelectSeq(parsed, Sane)

\* POST /api/admin/checkpoints
AdminCheckpoints(auth, body, rs) ==
    /\ Serving
    /\ IF ~adminGuard(auth) THEN Reply(Challenge)
       ELSE IF body.t = "bad" THEN Reply(Error(400, "bad_json"))
       ELSE /\ g_checkpoints' = parseCatalog(body, rs)
            /\ SaveThen(saveCheckpoints(g_checkpoints'), "respond",
                        Resp(200, "ok", [op |-> "checkpoints",
                                         count |-> Len(g_checkpoints')]))
            /\ credited' = [id \in DOMAIN credited |-> NoCredit]
            /\ UNCHANGED <<FW_VERSION, g_config, g_teams, fs, ap, resp, clock,
                           hist>>

\* POST /api/register; r is the value esp_random() returns
Register(body, r) ==
    /\ Serving
    /\ IF body.t = "bad" THEN Reply(Error(400, "bad_json"))
       ELSE LET name == sanitizeName(JV_toString(Member(body, "team_name"), <<>>))
                pin == JV_toString(Member(body, "pin"), <<>>)
                t == updatePointsFromFound(g_checkpoints,
                       [id |-> newId("T", r), name |-> name,
                        pin_hash |-> sha256Hex(pin), found |-> <<>>, points |-> 0,
                        created_at |-> clock])
            IN  IF Len(name) < 1 \/ Len(pin) < PIN_MINLEN \/ Len(pin) > PIN_MAXLEN
                THEN Reply(Error(400, "bad_fields"))
                ELSE IF findTeamByName(g_teams, name) # 0
                THEN Reply(Error(409, "exists"))
                ELSE /\ g_teams' = Append(g_teams, t)
                     /\ SaveThen(saveTeams(g_teams'), "respond",
                                 Resp(200, "ok", [op |-> "register", team_id |-> t.id]))
                     /\ UNCHANGED <<FW_VERSION, g_config, g_checkpoints, fs, ap,
                                    resp, clock, credited, hist>>

\* POST /api/team/submit_code
SubmitCode(body) ==
    /\ Serving
    /\ IF body.t = "bad" THEN Reply(Error(400, "bad_json"))
       ELSE LET team_id == JV_toString(Member(body, "team_id"), "")
                token == trim(JV_toString(Member(body, "token"), <<>>))
                ti == findTeamById(g_teams, team_id)
                ci == matchToken(g_checkpoints, token)
            IN  IF ti = 0 THEN Reply(Error(404, "team_not_found"))
                ELSE IF Len(token) = 0 THEN Reply(Error(400, "empty_token"))
                ELSE IF ci = 0 THEN Reply(Error(404, "no_match"))
                ELSE IF teamFoundHas(g_teams[ti], g_checkpoints[ci].id)
                THEN Reply(Resp(200, "duplicate", [points |-> g_teams[ti].points]))
                ELSE LET c == g_checkpoints[ci]
                         t == teamAddFound(g_checkpoints, g_teams[ti], c.id)
                     IN  /\ g_teams' = [g_teams EXCEPT ![ti] = t]
                         /\ SaveThen(saveTeams(g_teams'), "respond",
                                     Resp(200, "awarded",
                                          [awarded |-> c.points, total |-> t.points,
                                           checkpoint_id |-> c.id]))
                         /\ credited' = [credited EXCEPT ![team_id] =
                                           [item |-> c.id, points |-> t.points,
                                            found |-> t.found]]
                         /\ UNCHANGED <<FW_VERSION, g_config, g_checkpoints, fs, ap,
                                        resp, clock, hist>>

\* seeded fault: a tie on points goes to the later registrant
rankedBeforeLaterFirst(a, b) ==
    IF a.points # b.points THEN a.points > b.points ELSE a.created_at > b.created_at

\* the comparator of the leaderboard's std::sort
rankedBefore(a, b) ==
    IF a.points # b.points THEN a.points > b.points ELSE a.created_at < b.created_at

\* s with x put after its first k elements
InsertAt(s, k, x) == SubSeq(s, 1, k) \o <<x>> \o SubSeq(s, k + 1, Len(s))

\* the arrangements of the first n elements of v in which no element is
\* ranked before the one in front of it
RECURSIVE sortedUpTo(_, _)
sortedUpTo(v, n) ==
    IF n = 0 THEN {<<>>}
    ELSE UNION {{InsertAt(s, k, v[n]) :
                    k \in {j \in 0..Len(s) :
                              /\ j = 0 \/ ~rankedBefore(v[n], s[j])
                              /\ j = Len(s) \/ ~rankedBefore(s[j + 1], v[n])}} :
                s \in sortedUpTo(v, n - 1)}

\* the orders std::sort may leave v in: the comparator is all it promises
sorted(v) == sortedUpTo(v, Len(v))

\* GET /api/leaderboard
Leaderboard ==
    /\ Serving
    /\ g_teams' = [i \in 1..Len(g_teams) |->
                     updatePointsFromFound(g_checkpoints, g_teams[i])]
    /\ \E v \in sorted(g_teams') :
         resp' = Resp(200, "leaderboard",
                      [i \in 1..Min(Len(v), LEADERBOARD_SIZE) |->
                         [name |-> v[i].name, points |-> v[i].points,
                          found |-> Len(v[i].found)]])
    /\ UNCHANGED <<FW_VERSION, pc, wr, loc, g_config, g_checkpoints, fs, ap,
                   clock, credited, hist>>

---------------------------------------------------------------------------
(* Landing pages.                                                          *)

\* r->redirect(target)
Redirect(target) == Resp(302, "redirect", target)

\* seeded fault: the landing page of SETUP whatever the mode
landingFixed(c) == "/admin"

\* the target redirectToCurrentLanding picks
landing(c) == IF c.mode = MODE_SETUP THEN "/admin" ELSE "/captive"

\* the target GET / picks
rootLanding(c) == IF c.mode = MODE_SETUP THEN "/admin" ELSE "/app"

\* the captive-portal probes and every path with no route
redirectToCurrentLanding ==
    /\ Serving
    /\ Reply(Redirect(landing(g_config)))

\* GET /
GetRoot ==
    /\ Serving
    /\ Reply(Redirect(rootLanding(g_config)))

---------------------------------------------------------------------------
(* The device: power, boot, the operator's requests and one player.        *)

\* what an earlier firmware image may have left in /config.json
LegacyConfig(hash) ==
    Full(JObj([admin_hash |-> JStr(hash),
               setup_ssid |-> JStr(DEFAULT_SETUP_SSID),
               setup_pass |-> JStr(DEFAULT_SETUP_PASS),
               game_ssid |-> JStr(DEFAULT_GAME_SSID),
               game_pass |-> JStr("letmein"),
               mode |-> JStr("game"),
               fw_version |-> JStr(LegacyVersion)]))

\* a factory-fresh flash, one whose three documents are damaged, and one
\* that an earlier image configured
InitialStores ==
    {Formatted, [p \in Paths |-> IF p \in Docs THEN Corrupt ELSE Absent]} \cup
    {[Formatted EXCEPT ![FILE_CONFIG] = LegacyConfig(h)] :
        h \in {<<>>, sha256Hex(PASS_GOOD)}}

Init ==
    /\ FW_VERSION = "v1"
    /\ pc = "off"
    /\ wr = NoWrite
    /\ loc = NoLoc
    /\ g_config = DefaultConfig
    /\ g_checkpoints = <<>>
    /\ g_teams = <<>>
    /\ fs \in InitialStores
    /\ ap = NoAP
    /\ resp = NoResp
    /\ clock = 0
    /\ credited = [id \in TeamIds |-> NoCredit]
    /\ hist = NoHist

CatalogBodies ==
    {BadJson, JArr(<<>>),
     JArr(<<Entry(JStr("C001"), NAME_OAK, TOK_PADDED, JInt(10))>>)}

SubmitBodies ==
    {JObj([team_id |-> JStr(newId("T", 1)), token |-> JStr(tok)]) :
        tok \in {TOK_AB, TOK_zz}}

Boot == loadAll \/ setup \/ serverBegin

Operator ==
    \/ \E auth \in Headers : AdminStatus(auth)
    \/ \E body \in SetupBodies : AdminSetup(body)
    \/ \E auth \in Headers, body \in SsidBodies : AdminGameSsid(auth, body)
    \/ \E auth \in Headers, body \in CatalogBodies :
         \E rs \in Draws(body) : AdminCheckpoints(auth, body, rs)
    \/ \E auth \in Headers, body \in ModeBodies : AdminMode(auth, body)
    \/ AdminModeSwitch
    \/ \E auth \in Headers, body \in ResetBodies : AdminFactoryReset(auth, body)
    \/ AdminFactoryRestart

Player ==
    \/ \E body \in RegisterBodies(MaxTeams) : Register(body, 1)
    \/ \E body \in SubmitBodies : SubmitCode(body)
    \/ Leaderboard
    \/ redirectToCurrentLanding
    \/ GetRoot

Next ==
    \/ Boot
    \/ writeStringToFile
    \/ sendJSON
    \/ Receive
    \/ Operator
    \/ Player
    \/ PowerLoss
    \/ Flash

Spec == Init /\ [][Next]_vars

---------------------------------------------------------------------------
(* The game in progress: a device that was set up, given a catalog and     *)
(* switched to GAME, with two players, the passing of time, and power      *)
(* losses.  The catalog stays as it is.                                    *)

\* "Ab"
TOK_Ab == <<65, 98>>
\* "  "
TOK_BLANK == <<32, 32>>
\* "1234567"
PIN_LONG == <<49, 50, 51, 52, 53, 54, 55>>
\* "A", "a", " A"
NAME_A == <<65>>
NAME_a == <<97>>
NAME_A_PADDED == <<32, 65>>

\* the catalog on flash: two items whose codewords differ only in case
GameCatalog ==
    <<[id |-> "C001", name |-> NAME_OAK, token_text |-> TOK_Ab, points |-> 10],
      [id |-> "C002", name |-> NAME_OAK, token_text |-> TOK_AB, points |-> 20]>>

GameConfig ==
    [DefaultConfig EXCEPT !.admin_hash = sha256Hex(PASS_GOOD),
                          !.mode = MODE_GAME,
                          !.fw_version = "v1"]

GameStore ==
    [Formatted EXCEPT ![FILE_CONFIG] = Full(ConfigDoc(GameConfig)),
                      ![FILE_CHECKPOINTS] = Full(CheckpointsDoc(GameCatalog))]

GameInit ==
    /\ FW_VERSION = "v1"
    /\ pc = "off"
    /\ wr = NoWrite
    /\ loc = NoLoc
    /\ g_config = DefaultConfig
    /\ g_checkpoints = <<>>
    /\ g_teams = <<>>
    /\ fs = GameStore
    /\ ap = NoAP
    /\ resp = NoResp
    /\ clock = 0
    /\ credited = [id \in TeamIds |-> NoCredit]
    /\ hist = NoHist

\* millis() passes a second boundary; only a request reads the clock, so
\* time is let pass between requests
Tick ==
    /\ Serving
    /\ clock < MaxClock
    /\ clock' = clock + 1
    /\ UNCHANGED <<FW_VERSION, pc, wr, loc, g_config, g_checkpoints, g_teams,
                   fs, ap, resp, credited, hist>>

GameRegisterBodies ==
    {BadJson} \cup
    {JObj([team_name |-> JStr(nm), pin |-> JStr(PIN_OK)]) :
        nm \in {NAME_A, NAME_a, NAME_A_PADDED, <<>>}} \cup
    {JObj([team_name |-> JStr(NAME_A), pin |-> JStr(p)]) :
        p \in {PIN_SHORT, PIN_LONG}}

\* an id no registration of the model hands out
TEAM_UNKNOWN == "T999"

GameSubmitBodies ==
    {BadJson} \cup
    {JObj([team_id |-> JStr(id), token |-> JStr(tok)]) :
        id \in TeamIds \cup {TEAM_UNKNOWN},
        tok \in {TOK_AB, TOK_PADDED, TOK_zz, TOK_BLANK}}

GamePlayer ==
    \/ \E body \in GameRegisterBodies, r \in Rand : Register(body, r)
    \/ \E body \in GameSubmitBodies : SubmitCode(body)
    \/ Leaderboard

GameNext ==
    \/ Boot
    \/ writeStringToFile
    \/ sendJSON
    \/ Receive
    \/ Tick
    \/ GamePlayer
    \/ PowerLoss

Game == GameInit /\ [][GameNext]_vars

---------------------------------------------------------------------------
(* The full board: the same device with one team more on flash than the    *)
(* leaderboard shows.                                                      *)

BoardTeams == LEADERBOARD_SIZE + 1

\* team i of the roster on flash, in registration order: every other team
\* has found C001; team 3 was saved with points that the catalog no longer
\* gives it; the last two teams that found nothing registered in the same
\* second
BoardTeam(i) ==
    [id |-> newId("T", i),
     name |-> <<64 + i>>,
     pin_hash |-> sha256Hex(PIN_OK),
     found |-> IF i % 2 = 1 THEN <<"C001">> ELSE <<>>,
     points |-> IF i % 2 = 1 /\ i # 3 THEN 10 ELSE 0,
     created_at |-> IF i = BoardTeams - 1 THEN i - 2 ELSE i]

BoardRoster == [i \in 1..BoardTeams |-> BoardTeam(i)]

BoardStore == [GameStore EXCEPT ![FILE_TEAMS] = Full(TeamsDoc(BoardRoster))]

BoardInit ==
    /\ FW_VERSION = "v1"
    /\ pc = "off"
    /\ wr = NoWrite
    /\ loc = NoLoc
    /\ g_config = DefaultConfig
    /\ g_checkpoints = <<>>
    /\ g_teams = <<>>
    /\ fs = BoardStore
    /\ ap = NoAP
    /\ resp = NoResp
    /\ clock = 0
    /\ credited = [id \in TeamIds |-> NoCredit]
    /\ hist = NoHist

\* the catalog the operator replaces the one on flash with: other points
\* for C001, no C002
BoardCatalogBody == JArr(<<Entry(JStr("C001"), NAME_OAK, TOK_Ab, JInt(30))>>)

BoardOperator ==
    \E rs \in Draws(BoardCatalogBody) :
        AdminCheckpoints(Basic(WithUser(PASS_GOOD)), BoardCatalogBody, rs)

BoardSubmitBodies ==
    {JObj([team_id |-> JStr(id), token |-> JStr(TOK_PADDED)]) : id \in TeamIds}

BoardNext ==
    \/ Boot
    \/ writeStringToFile
    \/ sendJSON
    \/ Receive
    \/ \E body \in BoardSubmitBodies : SubmitCode(body)
    \/ Leaderboard
    \/ BoardOperator
    \/ PowerLoss

Board == BoardInit /\ [][BoardNext]_vars

---------------------------------------------------------------------------
(* The operator's bench: the configured device, before any team has       *)
(* registered, while the operator replaces the catalog with requests of    *)
(* every shape.                                                            *)

\* "a!b", and a codeword one character longer than TOKEN_MAXLEN
TOK_BANG == <<97, 33, 98>>
TOK_LONG == [i \in 1..(TOKEN_MAXLEN + 1) |-> 97]

\* POST /api/login
Login(body) ==
    /\ Serving
    /\ IF body.t = "bad" THEN Reply(Error(400, "bad_json"))
       ELSE LET name == sanitizeName(JV_toString(Member(body, "team_name"), <<>>))
                pin == JV_toString(Member(body, "pin"), <<>>)
                ti == findTeamByName(g_teams, name)
            IN  IF ti = 0 \/ ~consttime_eq(sha256Hex(pin), g_teams[ti].pin_hash)
                THEN Reply(Error(403, "auth"))
                ELSE Reply(Resp(200, "ok", [op |-> "login",
                                            team_id |-> g_teams[ti].id]))

\* a document that parses and is no array: one entry sent without its brackets
BenchNoArray == Entry(JStr("C001"), NAME_OAK, TOK_Ab, JInt(10))

\* two entries without an id
BenchNoIds ==
    JArr(<<Entry(JNull, NAME_OAK, TOK_Ab, JInt(10)),
           Entry(JNull, NAME_OAK, TOK_AB, JNull)>>)

\* an entry with the id C001 followed by one without an id
BenchMixedIds ==
    JArr(<<Entry(JStr("C001"), NAME_OAK, TOK_PADDED, JInt(10)),
           Entry(JNull, <<>>, TOK_AB, JInt(20))>>)

\* entries with malformed codewords around two well-formed ones, the first
\* of them worth nothing
BenchMalformed ==
    JArr(<<Entry(JStr("C002"), NAME_OAK, TOK_BANG, JInt(10)),
           Entry(JStr("C003"), NAME_OAK, TOK_zz, JInt(0)),
           Entry(JStr("C004"), NAME_OAK, TOK_BLANK, JInt(10)),
           Entry(JNull, NAME_OAK, TOK_LONG, JInt(10)),
           Entry(JStr("C005"), NAME_OAK, TOK_PADDED, JNull)>>)

\* C001 with a penalty
BenchPenalty == JArr(<<Entry(JStr("C001"), NAME_OAK, TOK_Ab, JInt(-5))>>)

BenchBodies ==
    {BadJson, BenchNoArray, JArr(<<>>), BenchNoIds, BenchMixedIds,
     BenchMalformed, BenchPenalty}

BenchAuth == Basic(WithUser(PASS_GOOD))

\* player requests of a device that has no team yet
BenchRegisterBodies ==
    {BadJson, JObj([team_name |-> JStr(<<>>), pin |-> JStr(PIN_OK)]),
     JObj([team_name |-> JStr(NAME_A), pin |-> JStr(PIN_SHORT)])}

BenchLoginBodies == {BadJson, JObj([team_name |-> JStr(NAME_A), pin |-> JStr(PIN_OK)])}

BenchInit ==
    /\ FW_VERSION = "v1"
    /\ pc = "off"
    /\ wr = NoWrite
    /\ loc = NoLoc
    /\ g_config = DefaultConfig
    /\ g_checkpoints = <<>>
    /\ g_teams = <<>>
    /\ fs = GameStore
    /\ ap = NoAP
    /\ resp = NoResp
    /\ clock = 0
    /\ credited = [id \in TeamIds |-> NoCredit]
    /\ hist = NoHist

BenchOperator ==
    \/ \E body \in BenchBodies :
         \E rs \in Draws(body) : AdminCheckpoints(BenchAuth, body, rs)
    \/ AdminMode(BenchAuth, JObj([mode |-> JStr("party")]))

BenchPlayer ==
    \/ \E body \in BenchRegisterBodies : Register(body, 1)
    \/ \E body \in BenchLoginBodies : Login(body)
    \/ \E body \in SubmitBodies : SubmitCode(body)

BenchNext ==
    \/ Boot
    \/ writeStringToFile
    \/ sendJSON
    \/ Receive
    \/ BenchOperator
    \/ BenchPlayer

Bench == BenchInit /\ [][BenchNext]_vars

---------------------------------------------------------------------------
(* A flash that can refuse a write: the configured device with one team,   *)
(* on a file system that is full or worn.                                  *)

\* writeStringToFile returns false: LittleFS.open gives no file, or print
\* writes fewer bytes than it was given and the temp file is removed
writeStringToFileFails ==
    /\ wr.step \in {"open", "print"}
    /\ fs' = IF wr.step = "print" THEN [fs EXCEPT ![TmpOf(wr.path)] = Absent]
             ELSE fs
    /\ wr' = NoWrite
    /\ UNCHANGED <<FW_VERSION, pc, loc, g_config, g_checkpoints, g_teams, ap,
                   resp, clock, credited, hist>>

WornOperator ==
    \/ \E body \in SsidBodies : AdminGameSsid(BenchAuth, body)
    \/ \E rs \in Draws(BenchPenalty) : AdminCheckpoints(BenchAuth, BenchPenalty, rs)

WornPlayer ==
    \/ \E body \in RegisterBodies(MaxTeams) : Register(body, 1)
    \/ \E body \in SubmitBodies : SubmitCode(body)

WornNext ==
    \/ Boot
    \/ writeStringToFile
    \/ writeStringToFileFails
    \/ sendJSON
    \/ Receive
    \/ WornOperator
    \/ WornPlayer
    \/ PowerLoss

Worn == BenchInit /\ [][WornNext]_vars

---------------------------------------------------------------------------
(* Save and load: a running device whose memory holds one of a range of    *)
(* configurations, catalogs or rosters saves its three documents to a      *)
(* formatted flash and loads them as a boot does.                          *)

\* sequences over S of length at most n
RECURSIVE SeqsUpTo(_, _)
SeqsUpTo(S, n) ==
    IF n = 0 THEN {<<>>}
    ELSE LET shorter == SeqsUpTo(S, n - 1)
         IN  shorter \cup {Append(q, x) : q \in shorter, x \in S}

StoredConfigs ==
    {[DefaultConfig EXCEPT !.admin_hash = h, !.game_ssid = g, !.mode = m,
                           !.fw_version = v] :
        h \in {<<>>, sha256Hex(PASS_GOOD)},
        g \in {DEFAULT_GAME_SSID, SSID_NEW, <<>>},
        m \in {MODE_SETUP, MODE_GAME},
        v \in {"", "v0", "v1"}}

StoredItems ==
    [id : {"", "C001"}, name : {<<>>, NAME_OAK}, token_text : {TOK_Ab},
     points : {-5, 0, DEFAULT_POINTS}]

StoredTeams ==
    [id : {"T001"}, name : {<<>>, NAME_A}, pin_hash : {sha256Hex(PIN_OK)},
     found : {<<>>, <<"C001">>, <<"C001", "">>}, points : {0, 10},
     created_at : {0, 1}]

StoredInit ==
    /\ FW_VERSION = "v1"
    /\ pc = "idle"
    /\ wr = NoWrite
    /\ loc = NoLoc
    /\ \/ /\ g_config \in StoredConfigs
          /\ g_checkpoints = <<>>
          /\ g_teams = <<>>
       \/ /\ g_config = GameConfig
          /\ g_checkpoints \in SeqsUpTo(StoredItems, MaxStored)
          /\ g_teams = <<>>
       \/ /\ g_config = GameConfig
          /\ g_checkpoints = <<>>
          /\ g_teams \in SeqsUpTo(StoredTeams, MaxStored)
    /\ fs = Formatted
    /\ ap = startGameAP(GameConfig)
    /\ resp = NoResp
    /\ clock = 0
    /\ credited = [id \in TeamIds |-> NoCredit]
    /\ hist = NoHist

\* saveConfig, saveCheckpoints and saveTeams run to their end, then
\* loadConfig, loadCheckpoints and loadTeams as loadAll calls them on the
\* globals of a device that has just been powered
SaveAndLoad ==
    /\ pc = "idle"
    /\ loc = NoLoc
    /\ fs' = [fs EXCEPT ![FILE_CONFIG] = Full(saveConfig(g_config).data),
                        ![FILE_CHECKPOINTS] = Full(saveCheckpoints(g_checkpoints).data),
                        ![FILE_TEAMS] = Full(saveTeams(g_teams).data)]
    /\ loc' = [fn |-> "loaded",
               config |-> loadConfig(DefaultConfig, readDocument(fs', FILE_CONFIG)),
               checkpoints |-> loadCheckpoints(fs'),
               teams |-> loadTeams(fs')]
    /\ UNCHANGED <<FW_VERSION, pc, wr, g_config, g_checkpoints, g_teams, ap,
                   resp, clock, credited, hist>>

Stored == StoredInit /\ [][SaveAndLoad]_vars

---------------------------------------------------------------------------
(* Comparison of secrets: consttime_eq applied to every pair of strings of *)
(* up to MaxLen characters over three byte values, NUL among them.         *)

CompareStrings == SeqsUpTo({0, 97, 98}, MaxLen)

CompareInit ==
    /\ FW_VERSION = "v1"
    /\ pc = "idle"
    /\ wr = NoWrite
    /\ loc \in {[fn |-> "consttime_eq", a |-> a, b |-> b] :
                   a \in CompareStrings, b \in CompareStrings}
    /\ g_config = GameConfig
    /\ g_checkpoints = <<>>
    /\ g_teams = <<>>
    /\ fs = Formatted
    /\ ap = startGameAP(GameConfig)
    /\ resp = NoResp
    /\ clock = 0
    /\ credited = [id \in TeamIds |-> NoCredit]
    /\ hist = NoHist

\* consttime_eq(a, b) runs and returns
Compared ==
    /\ loc.fn = "consttime_eq"
    /\ loc' = [fn |-> "returned", a |-> loc.a, b |-> loc.b,
               result |-> consttime_eq(loc.a, loc.b),
               steps |-> consttime_steps(loc.a, loc.b, 1, 0)]
    /\ UNCHANGED <<FW_VERSION, pc, wr, g_config, g_checkpoints, g_teams, fs,
                   ap, resp, clock, credited, hist>>

Compare == CompareInit /\ [][Compared]_vars

---------------------------------------------------------------------------
(* The radio during a mode switch: switchAPNow one statement at a time, on *)
(* the configured device.  pc goes from "switchAP" through "delay",        *)
(* "dnsStop", "softAP" and "dnsStart" to "respond".                        *)

\* what WiFi.softAP of mode m puts on the air; the DNS redirector is as it was
softAPOf(a, c, m) == [switchAPNow(c, m) EXCEPT !.dns = a.dns]

\* seeded fault: the network is torn down while saveConfig is still writing
softAPdisconnectUnsaved ==
    /\ pc = "switchAP"
    /\ pc' = "delay"
    /\ ap' = [net |-> "none", dns |-> ap.dns]
    /\ UNCHANGED <<FW_VERSION, wr, loc, g_config, g_checkpoints, g_teams, fs,
                   resp, clock, credited, hist>>

\* saveConfig has returned; WiFi.softAPdisconnect(true)
softAPdisconnect ==
    /\ pc = "switchAP"
    /\ wr.step = "none"
    /\ pc' = "delay"
    /\ ap' = [net |-> "none", dns |-> ap.dns]
    /\ UNCHANGED <<FW_VERSION, wr, loc, g_config, g_checkpoints, g_teams, fs,
                   resp, clock, credited, hist>>

\* delay(100)
delay ==
    /\ pc = "delay"
    /\ pc' = "dnsStop"
    /\ UNCHANGED <<FW_VERSION, wr, loc, g_config, g_checkpoints, g_teams, fs,
                   ap, resp, clock, credited, hist>>

\* dnsServer.stop()
stopCaptivePortalDNSOnly ==
    /\ pc = "dnsStop"
    /\ pc' = "softAP"
    /\ ap' = [ap EXCEPT !.dns = FALSE]
    /\ UNCHANGED <<FW_VERSION, wr, loc, g_config, g_checkpoints, g_teams, fs,
                   resp, clock, credited, hist>>

\* startSetupAP or startGameAP up to its WiFi.softAP
softAP ==
    /\ pc = "softAP"
    /\ pc' = "dnsStart"
    /\ ap' = softAPOf(ap, g_config, g_config.mode)
    /\ UNCHANGED <<FW_VERSION, wr, loc, g_config, g_checkpoints, g_teams, fs,
                   resp, clock, credited, hist>>

\* dnsServer.start(53, "*", WiFi.softAPIP()); switchAPNow returns
startCaptivePortalDNSOnly ==
    /\ pc = "dnsStart"
    /\ pc' = "respond"
    /\ ap' = [ap EXCEPT !.dns = TRUE]
    /\ UNCHANGED <<FW_VERSION, wr, loc, g_config, g_checkpoints, g_teams, fs,
                   resp, clock, credited, hist>>

RadioNext ==
    \/ Boot
    \/ writeStringToFile
    \/ \E auth \in {BenchAuth, NoHeader}, body \in ModeBodies : AdminMode(auth, body)
    \/ softAPdisconnect
    \/ delay
    \/ stopCaptivePortalDNSOnly
    \/ softAP
    \/ startCaptivePortalDNSOnly
    \/ sendJSON
    \/ Receive
    \/ PowerLoss

Radio == BenchInit /\ [][RadioNext]_vars

---------------------------------------------------------------------------
(* Scoring.                                                                *)

\* C1: whenever the device is between two steps of its operation with the
\* server up, every team's stored points equal the sum of the points of the
\* catalog items whose id is in the team's found list and that are still in
\* the catalog.
C1_PointsMatchFound ==
    pc = "idle" =>
        \A i \in 1..Len(g_teams) :
            g_teams[i].points = sumFound(g_checkpoints, g_teams[i].found, 1)

\* the team and the item a submission resolves to, 0 when there is none
TeamOf(body) == findTeamById(g_teams, JV_toString(Member(body, "team_id"), ""))
ItemOf(body) ==
    matchToken(g_checkpoints, trim(JV_toString(Member(body, "token"), <<>>)))

\* the submission is for a team that was awarded the very item it resolves to
Resubmission(body) ==
    /\ TeamOf(body) # 0
    /\ ItemOf(body) # 0
    /\ credited[g_teams[TeamOf(body)].id].item = g_checkpoints[ItemOf(body)].id

\* C2: with the catalog unchanged, the first submission of a matching codeword
\* by a team is accepted with an award that adds the item to the team's found
\* list; every later submission by that team that resolves to the same item
\* is answered "duplicate" with the points of the award, and leaves the team's
\* points and found list as they were after the award.
C2_SubmitIdempotent ==
    [][\A body \in SubmitBodies :
         LET ti == TeamOf(body)
             ci == ItemOf(body)
         IN  /\ (SubmitCode(body) /\ ti # 0 /\ ci # 0
                   /\ \A k \in 1..Len(g_teams[ti].found) :
                        g_teams[ti].found[k] # g_checkpoints[ci].id)
                => /\ loc'.out.kind = "awarded"
                   /\ loc'.out.data.awarded = g_checkpoints[ci].points
                   /\ g_teams'[ti].found =
                        Append(g_teams[ti].found, g_checkpoints[ci].id)
                   /\ credited'[g_teams[ti].id].item = g_checkpoints[ci].id
             /\ (SubmitCode(body) /\ Resubmission(body))
                => LET first == credited[g_teams[ti].id]
                   IN  /\ resp' = Resp(200, "duplicate", [points |-> first.points])
                       /\ g_teams'[ti].points = first.points
                       /\ g_teams'[ti].found = first.found
                       /\ g_teams' = g_teams]_vars

\* a duplicate has been answered to a team whose award is on record
C2_Witness ==
    /\ resp.code = 200
    /\ resp.kind = "duplicate"
    /\ \E id \in DOMAIN credited :
         credited[id].item # "" /\ resp.data.points = credited[id].points

---------------------------------------------------------------------------
(* Durable writes.                                                         *)

\* C3: while a save has not yet reached its rename (it is about to open the
\* temp file, to write it, or to remove the prior file) and the final path
\* holds a complete document, no step, a power loss included, changes what
\* the final path holds.
C3_PreviousVersionKept ==
    [][(wr.step \in {"open", "print", "remove"} /\ fs[wr.path].kind = "full")
         => fs'[wr.path] = fs[wr.path]]_vars

\* C4: a document's final path never holds a partially written document, and
\* every step leaves at each final path what was there, nothing, or the
\* complete document of the save whose rename the step is.
C4_NeverPartial ==
    /\ [](\A p \in Docs : fs[p].kind # "partial")
    /\ [][\A p \in Docs :
            \/ fs'[p] = fs[p]
            \/ fs'[p] = Absent
            \/ wr.step = "rename" /\ p = wr.path /\ fs'[p] = Full(wr.data)]_vars

\* power was lost during a save of the roster: the cut-short temp file is
\* there and the final path holds a complete roster
C4_Witness ==
    /\ pc = "off"
    /\ fs[TmpOf(FILE_TEAMS)] = Partial
    /\ fs[FILE_TEAMS].kind = "full"

---------------------------------------------------------------------------
(* Boot.                                                                   *)

\* the step with which setup() returns and the server is up
BootCompletes == pc = "setup" /\ pc' = "idle"

\* the configuration document at rest in f, NoDoc when none parses
PersistedIn(f) == readDocument(f, FILE_CONFIG)

MarkerChangedWithSecret(f) ==
    /\ f[FILE_CONFIG].kind = "full"
    /\ Member(PersistedIn(f), "fw_version") # JStr(FW_VERSION)
    /\ Member(PersistedIn(f), "admin_hash").t = "str"
    /\ Len(Member(PersistedIn(f), "admin_hash").v) > 0

\* the boot in progress read such a configuration
BootedAcrossVersions ==
    /\ loc.fn = "loadAll"
    /\ loc.have
    /\ loc.storedVer # FW_VERSION
    /\ Len(loc.ah) > 0

DataFilesKept ==
    /\ fs'[FILE_CHECKPOINTS] = fs[FILE_CHECKPOINTS]
    /\ fs'[FILE_TEAMS] = fs[FILE_TEAMS]

---------------------------------------------------------------------------
(* Operator authentication.                                                *)

\* the payload has a colon, and what follows its first colon
HasColon(b) == \E i \in 1..Len(b) : b[i] = 58
SecretOf(b) ==
    LET i == CHOOSE k \in 1..Len(b) : b[k] = 58 /\ \A j \in 1..(k - 1) : b[j] # 58
    IN  SubSeq(b, i + 1, Len(b))

\* the header carries a well-formed username:secret credential whose secret
\* hashes to admin_hash
ValidCredential(auth) ==
    /\ auth.t = "basic"
    /\ auth.valid
    /\ HasColon(auth.bytes)
    /\ sha256Hex(SecretOf(auth.bytes)) = g_config.admin_hash

Granted(auth) == Len(g_config.admin_hash) = 0 \/ ValidCredential(auth)

\* a request with header auth to one of the guarded routes
Guarded(auth) ==
    \/ AdminStatus(auth)
    \/ \E body \in SsidBodies : AdminGameSsid(auth, body)
    \/ \E body \in CatalogBodies :
         \E rs \in Draws(body) : AdminCheckpoints(auth, body, rs)
    \/ \E body \in ModeBodies : AdminMode(auth, body)
    \/ \E body \in ResetBodies : AdminFactoryReset(auth, body)

\* C7: whenever a request can be taken, adminGuard lets it pass exactly when
\* admin_hash is empty or the request carries a well-formed username:secret
\* credential whose secret hashes to admin_hash; a 401 is only ever answered
\* while admin_hash is set
\* and is the challenge with its WWW-Authenticate header; a guarded request
\* that does not pass can get no other answer, and one that passes cannot
\* get it.
C7_Authenticate ==
    /\ (resp.code = 401 \/ resp.kind = "challenge")
         => (resp = Challenge /\ Len(g_config.admin_hash) > 0)
    /\ Serving => \A auth \in Headers : adminGuard(auth) <=> Granted(auth)
    /\ (Serving /\ Len(g_config.admin_hash) > 0) =>
         ~ENABLED (\E auth \in Headers :
                      /\ Guarded(auth)
                      /\ Granted(auth) <=> resp' = Challenge)

\* a request has been answered with the challenge while a secret is set
C7_Witness ==
    /\ Len(g_config.admin_hash) > 0
    /\ resp.code = 401
    /\ resp.kind = "challenge"

\* a request with header auth for one of the operator's changes
OperatorAct(auth) ==
    \/ \E body \in SsidBodies : AdminGameSsid(auth, body)
    \/ \E body \in CatalogBodies :
         \E rs \in Draws(body) : AdminCheckpoints(auth, body, rs)
    \/ \E body \in ModeBodies : AdminMode(auth, body)
    \/ \E body \in ResetBodies : AdminFactoryReset(auth, body)
    \/ \E body \in SetupBodies : AdminSetup(body)

\* C8: while admin_hash is set, a request for an operator change (game
\* network name, catalog, mode, factory reset, initial secret) that carries
\* no valid credential can have no outcome but an answer of 400 or 401 that
\* leaves the configuration, the catalog, the roster, the files, the pending
\* write, the broadcast network and the running state of the device as they
\* were.
C8_DeniedChangesNothing ==
    (Serving /\ Len(g_config.admin_hash) > 0) =>
        ~ENABLED (\E auth \in Headers :
                     /\ ~ValidCredential(auth)
                     /\ OperatorAct(auth)
                     /\ ~(/\ resp'.code \in {400, 401}
                          /\ UNCHANGED <<g_config, g_checkpoints, g_teams, fs,
                                         wr, ap, pc, FW_VERSION>>))

\* a request was challenged on a device running a game with a catalog and a
\* roster
C8_Witness ==
    /\ Len(g_config.admin_hash) > 0
    /\ resp.kind = "challenge"
    /\ g_config.mode = MODE_GAME
    /\ ap.net = "game"
    /\ g_checkpoints # <<>>
    /\ g_teams # <<>>

\* the secret a body of POST /api/admin/setup supplies, empty when it has none
SuppliedSecret(body) ==
    IF body.t = "obj" /\ "pass" \in DOMAIN body.v /\ body.v["pass"].t = "str"
    THEN body.v["pass"].v ELSE <<>>

\* C9: POST /api/admin/setup answers an error and leaves admin_hash and the
\* files as they were when admin_hash is not empty or the supplied secret has
\* fewer than 6 characters; otherwise it sets admin_hash to the hash of the
\* supplied secret, saves the configuration and answers 200.
C9_SetInitialSecret ==
    [][\A body \in SetupBodies :
         AdminSetup(body) =>
            IF Len(g_config.admin_hash) > 0 \/ Len(SuppliedSecret(body)) < 6
            THEN /\ resp'.code = 400
                 /\ g_config' = g_config
                 /\ fs' = fs
                 /\ wr' = wr
            ELSE /\ g_config'.admin_hash = sha256Hex(SuppliedSecret(body))
                 /\ wr'.step = "open"
                 /\ wr'.data = ConfigDoc(g_config')
                 /\ loc'.out.code = 200]_vars

\* a second attempt to set the initial secret has been refused
C9_Witness ==
    /\ g_config.admin_hash = sha256Hex(PASS_GOOD)
    /\ resp.code = 400
    /\ resp.kind = "already_configured"

---------------------------------------------------------------------------
(* The game network's secret.                                              *)

\* the configuration document in f, if there is one, has an empty game_pass
PersistedOpen(f) ==
    f[FILE_CONFIG].kind = "full" => Member(PersistedIn(f), "game_pass") = JStr("")

---------------------------------------------------------------------------
(* Mode transitions and the secret across power losses.                    *)

\* C11: when power is lost during a mode transition after its configuration
\* save has returned (the network is being switched), the next boot that
\* completes ends in the mode the transition was heading toward.
C11_ResumesInHeadedMode ==
    (pc = "setup" /\ wr.step = "none" /\ hist.heading # "none")
        => g_config.mode = hist.heading

\* C12: once a request or a boot has completed with admin_hash set, and with
\* the same firmware image and no factory reset since, no boot ends with
\* admin_hash empty, wherever power was lost in between.
C12_SecretStaysSet ==
    (pc = "setup" /\ hist.secret) => Len(g_config.admin_hash) > 0

---------------------------------------------------------------------------
(* Landing pages follow the mode.                                          *)

\* C13: a redirect answers with the operator page when the mode at that
\* request is SETUP and with a player page (the captive landing page, or the
\* app for GET /) when it is GAME, whatever the mode was earlier; and in
\* every state where a request can be taken, neither redirecting handler can
\* answer anything else.
C13_LandingFollowsMode ==
    /\ resp.kind = "redirect" =>
         IF g_config.mode = MODE_SETUP THEN resp.data = "/admin"
         ELSE resp.data \in {"/captive", "/app"}
    /\ Serving =>
         /\ ~ENABLED (/\ redirectToCurrentLanding
                      /\ resp'.data # IF g_config.mode = MODE_SETUP
                                      THEN "/admin" ELSE "/captive")
         /\ ~ENABLED (/\ GetRoot
                      /\ resp'.data # IF g_config.mode = MODE_SETUP
                                      THEN "/admin" ELSE "/app")

\* a probe is sent to the player landing page on a device that booted in
\* SETUP (no secret was set when it booted) and was switched to GAME since
C13_Witness ==
    /\ resp = Redirect("/captive")
    /\ g_config.mode = MODE_GAME
    /\ Len(g_config.admin_hash) = 0
    /\ ap.net = "game"

---------------------------------------------------------------------------
(* Resolving a submission.                                                 *)

\* the text of a submission after trimming, and the team it names
TextOf(body) == trim(JV_toString(Member(body, "token"), <<>>))
TeamIn(body) == findTeamById(g_teams, JV_toString(Member(body, "team_id"), ""))

\* the catalog items whose codeword is exactly the text
ExactHits(cs, text) == {i \in 1..Len(cs) : cs[i].token_text = text}

\* C14: when some catalog item's codeword equals the trimmed text exactly, a
\* submission that is awarded is awarded the first such item in catalog
\* order, even when an earlier item matches the text case-insensitively.
C14_ExactMatchFirst ==
    [][\A body \in GameSubmitBodies :
         (/\ Serving
          /\ ExactHits(g_checkpoints, TextOf(body)) # {}
          /\ SubmitCode(body)
          /\ pc' = "respond")
            => loc'.out.data.checkpoint_id =
                 g_checkpoints[FirstIndex(ExactHits(g_checkpoints, TextOf(body)))].id]_vars

\* C15: a submission whose text is empty after trimming is answered
\* empty_token (malformed input) whether or not its team id is known, and
\* team_not_found is answered only to a submission with non-empty text.
C15_EmptyTextBeforeTeam ==
    [][\A body \in GameSubmitBodies :
         (Serving /\ body.t # "bad" /\ SubmitCode(body))
            => /\ Len(TextOf(body)) = 0 => resp' = Error(400, "empty_token")
               /\ resp' = Error(404, "team_not_found") => Len(TextOf(body)) > 0]_vars

\* the catalog items whose codeword is the text up to letter case
CaseHits(cs, text) ==
    {i \in 1..Len(cs) : toLowerCase(cs[i].token_text) = toLowerCase(text)}

\* the item a text stands for: the first whose codeword is exactly the text,
\* failing that the first whose codeword is the text up to letter case
ItemFor(cs, text) ==
    IF ExactHits(cs, text) # {} THEN FirstIndex(ExactHits(cs, text))
    ELSE FirstIndex(CaseHits(cs, text))

\* C16: a submission by an existing team whose trimmed text stands for a
\* catalog item the team has not found is accepted: the item's id is appended
\* once to found_items, the answer reports the item's points as the award and
\* the sum of the catalog's points over found_items as the total, a save of
\* the roster is started, and the roster on flash is the roster in memory
\* when the answer goes out.
C16_FirstFindAccepted ==
    [][/\ \A body \in GameSubmitBodies :
            LET ti == TeamIn(body)
                ci == ItemFor(g_checkpoints, TextOf(body))
            IN  (/\ Serving
                 /\ body.t # "bad"
                 /\ ti # 0
                 /\ ci # 0
                 /\ ~teamFoundHas(g_teams[ti], g_checkpoints[ci].id)
                 /\ SubmitCode(body))
                   => /\ pc' = "respond"
                      /\ g_teams'[ti].found =
                           Append(g_teams[ti].found, g_checkpoints[ci].id)
                      /\ loc'.out =
                           Resp(200, "awarded",
                                [awarded |-> g_checkpoints[ci].points,
                                 total |-> sumFound(g_checkpoints,
                                                    g_teams'[ti].found, 1),
                                 checkpoint_id |-> g_checkpoints[ci].id])
                      /\ wr' = saveTeams(g_teams')
       /\ (sendJSON /\ resp'.kind = "awarded")
            => readDocument(fs', FILE_TEAMS) = TeamsDoc(g_teams')]_vars

---------------------------------------------------------------------------
(* The leaderboard.                                                        *)

\* the team of the roster with this name
TeamNamed(nm) == g_teams[findTeamByName(g_teams, nm)]

\* the points the catalog now gives a team
Derived(t) == sumFound(g_checkpoints, t.found, 1)

\* C17: a leaderboard answer lists at most LEADERBOARD_SIZE teams of the
\* roster, each once, each with the points its found_items have in the
\* catalog now; of two adjacent entries the earlier has more points, or the
\* same points and a created_at that is not later; and no team left out has
\* more points than a listed team, or the same points and an earlier
\* created_at.
C17_Leaderboard ==
    resp.kind = "leaderboard" =>
        LET b == resp.data
            n == Len(b)
            Out == {k \in 1..Len(g_teams) :
                      \A i \in 1..n : b[i].name # g_teams[k].name}
        IN  /\ n <= LEADERBOARD_SIZE
            /\ n = Min(Len(g_teams), LEADERBOARD_SIZE)
            /\ \A i \in 1..n :
                 /\ findTeamByName(g_teams, b[i].name) # 0
                 /\ b[i].points = Derived(TeamNamed(b[i].name))
                 /\ b[i].found = Len(TeamNamed(b[i].name).found)
            /\ \A i, j \in 1..n : i # j => b[i].name # b[j].name
            /\ \A i \in 1..(n - 1) :
                 \/ b[i].points > b[i + 1].points
                 \/ /\ b[i].points = b[i + 1].points
                    /\ TeamNamed(b[i].name).created_at
                         <= TeamNamed(b[i + 1].name).created_at
            /\ \A k \in Out, i \in 1..n :
                 /\ Derived(g_teams[k]) <= b[i].points
                 /\ Derived(g_teams[k]) = b[i].points
                      => g_teams[k].created_at >= TeamNamed(b[i].name).created_at

\* a board cut at LEADERBOARD_SIZE entries that leaves a team out, with a
\* tie on points between adjacent entries registered at different times, and
\* an entry whose points are not the points saved with its team
C17_Witness ==
    /\ resp.kind = "leaderboard"
    /\ Len(resp.data) = LEADERBOARD_SIZE
    /\ Len(g_teams) > LEADERBOARD_SIZE
    /\ \E i \in 1..(Len(resp.data) - 1) :
         /\ resp.data[i].points = resp.data[i + 1].points
         /\ TeamNamed(resp.data[i].name).created_at
              < TeamNamed(resp.data[i + 1].name).created_at
    /\ \E i \in 1..Len(resp.data) :
         \E k \in 1..Len(loadTeams(fs)) :
            /\ loadTeams(fs)[k].name = resp.data[i].name
            /\ loadTeams(fs)[k].points # resp.data[i].points

---------------------------------------------------------------------------
(* The roster.                                                             *)

\* C18: the roster keeps its teams in registration order, and along it
\* created_at never decreases, reboots included.
C18_CreatedAtMonotonic ==
    \A i, j \in 1..Len(g_teams) :
        i < j => g_teams[i].created_at <= g_teams[j].created_at

\* the display name and the PIN a registration asks for
NameIn(body) == sanitizeName(JV_toString(Member(body, "team_name"), <<>>))
PinIn(body) == JV_toString(Member(body, "pin"), <<>>)

\* what register refuses
Refused(body) ==
    \/ body.t = "bad"
    \/ Len(NameIn(body)) = 0
    \/ Len(PinIn(body)) < PIN_MINLEN
    \/ Len(PinIn(body)) > PIN_MAXLEN
    \/ \E i \in 1..Len(g_teams) : g_teams[i].name = NameIn(body)

C20_TeamIdsUnique ==
    \A i, j \in 1..Len(g_teams) : i # j => g_teams[i].id # g_teams[j].id

---------------------------------------------------------------------------
(* The catalog.                                                            *)

\* C21: no two items of the catalog have the same id, whether the ids were
\* synthesized by newId or supplied in the request.
C21_CatalogIdsUnique ==
    \A i, j \in 1..Len(g_checkpoints) :
        g_checkpoints[i].id = g_checkpoints[j].id => i = j

\* the trimmed codeword of a request entry, and whether it is well-formed:
\* 1 to TOKEN_MAXLEN characters, each a letter, a digit or one of - _ / space
CodewordOf(o) == trim(JV_toString(Member(o, "token_text"), <<>>))
WellFormed(tok) ==
    /\ Len(tok) \in 1..TOKEN_MAXLEN
    /\ \A k \in 1..Len(tok) :
         \/ tok[k] \in 48..57 \/ tok[k] \in 65..90 \/ tok[k] \in 97..122
         \/ tok[k] \in {32, 45, 47, 95}

\* the entries of a request that a replacement keeps, in request order
KeptOf(body) ==
    LET Keep(o) == WellFormed(CodewordOf(o))
    IN  SelectSeq(asArray(body), Keep)

\* item c is what entry o asks for: its codeword trimmed, its id when it
\* brings one and an id that newId synthesizes otherwise
EntryGives(c, o) ==
    /\ c.token_text = CodewordOf(o)
    /\ IF JV_toString(Member(o, "id"), "") # ""
       THEN c.id = Member(o, "id").v
       ELSE c.id \in {newId("C", r) : r \in Rand}
    /\ c.name = sanitizeName(JV_toString(Member(o, "name"), <<>>))
    /\ c.points = JV_toInt(Member(o, "points"), DEFAULT_POINTS)

\* C22: a granted replacement whose body is an array leaves in g_checkpoints,
\* in request order, one item for each entry with a well-formed trimmed
\* codeword and nothing else, whatever the catalog held before; it is
\* answered ok with the count of the items kept, and the catalog on flash is
\* the same once the answer is out.
C22_ReplaceWholesale ==
    [][/\ \A body \in BenchBodies : \A rs \in Draws(body) :
            (body.t = "arr" /\ AdminCheckpoints(BenchAuth, body, rs))
            => LET kept == KeptOf(body)
               IN  /\ Len(g_checkpoints') = Len(kept)
                   /\ \A k \in 1..Len(kept) : EntryGives(g_checkpoints'[k], kept[k])
                   /\ loc'.out = Resp(200, "ok", [op |-> "checkpoints",
                                                   count |-> Len(kept)])
       /\ (sendJSON /\ loc.out.kind = "ok" /\ loc.out.data.op = "checkpoints")
          => loadCheckpoints(fs') = g_checkpoints']_vars

\* a replacement has dropped malformed entries around the ones it kept, and
\* the catalog it replaced held other items
C22_Witness ==
    /\ resp.kind = "ok"
    /\ resp.data.op = "checkpoints"
    /\ resp.data.count = 2
    /\ Len(KeptOf(BenchMalformed)) = 2
    /\ Len(asArray(BenchMalformed)) = 5
    /\ g_checkpoints[1].id = "C003"
    /\ g_checkpoints[2].id = "C005"
    /\ g_checkpoints[2].token_text = TOK_Ab
    /\ loadCheckpoints(fs) = g_checkpoints

\* C23: every item of the catalog has points > 0.
C23_PointsPositive ==
    \A i \in 1..Len(g_checkpoints) : g_checkpoints[i].points > 0

---------------------------------------------------------------------------
(* Saves and what the requester is told.                                   *)

\* C24: while the answer of a mutating request (set secret, game network
\* name, catalog, mode, register, accepted codeword) that reports success is
\* with its requester, the document the request changed is on flash as it is
\* in memory: no success is reported for a save that failed.
C24_SuccessMeansSaved ==
    /\ (resp.kind = "ok" /\ resp.data.op \in {"setup", "game_ssid", "mode"})
       => readDocument(fs, FILE_CONFIG) = ConfigDoc(g_config)
    /\ (resp.kind = "ok" /\ resp.data.op = "checkpoints")
       => readDocument(fs, FILE_CHECKPOINTS) = CheckpointsDoc(g_checkpoints)
    /\ ((resp.kind = "ok" /\ resp.data.op = "register") \/ resp.kind = "awarded")
       => readDocument(fs, FILE_TEAMS) = TeamsDoc(g_teams)

---------------------------------------------------------------------------
(* Boot without documents.                                                 *)

---------------------------------------------------------------------------
(* Save and load.                                                          *)

---------------------------------------------------------------------------
(* Memory and flash.                                                       *)

\* C27: whenever the server is up with no handler running and no answer
\* outstanding, loading the three documents from flash gives the
\* configuration, the catalog and the roster that are in memory, every
\* team's points included.
C27_MemoryEqualsFlash ==
    Serving
    => /\ loadConfig(DefaultConfig, readDocument(fs, FILE_CONFIG)) = g_config
       /\ loadCheckpoints(fs) = g_checkpoints
       /\ loadTeams(fs) = g_teams

---------------------------------------------------------------------------
(* Teams stay.                                                             *)

\* every team of roster old is in roster new at its place with the same id,
\* name and pin_hash and with every item it had found
Survives(old, new) ==
    \A i \in 1..Len(old) :
        /\ i <= Len(new)
        /\ new[i].id = old[i].id
        /\ new[i].name = old[i].name
        /\ new[i].pin_hash = old[i].pin_hash
        /\ \A k \in 1..Len(old[i].found) :
             \E m \in 1..Len(new[i].found) : new[i].found[m] = old[i].found[k]

\* the roster the device has: the one in memory while it runs, the one a
\* boot will load while it is off
RosterNow == IF pc \in {"off", "loadAll"} THEN loadTeams(fs) ELSE g_teams

\* the roster whose registrations and finds have been answered: while a
\* register or an accepted submission is saving, the roster without the team
\* or the find that request is adding
RosterAnswered ==
    IF pc = "respond" /\ loc.out.kind = "ok" /\ loc.out.data.op = "register"
    THEN SubSeq(g_teams, 1, Len(g_teams) - 1)
    ELSE IF pc = "respond" /\ loc.out.kind = "awarded"
    THEN [i \in 1..Len(g_teams) |->
            [g_teams[i] EXCEPT !.found =
                IF Len(@) > 0 /\ @[Len(@)] = loc.out.data.checkpoint_id
                THEN SubSeq(@, 1, Len(@) - 1) ELSE @]]
    ELSE RosterNow

\* the handler of a wipe-all reset is between factoryReset and the restart
WipingAll ==
    pc = "restart" /\ loc.out.data.op = "factory_reset" /\ loc.out.data.wipe_all

\* C28: on every step that is not part of a wipe-all reset, each team whose
\* registration has been answered stays in the roster the device has, in
\* memory or to be loaded at the next boot, with its id, name, pin_hash and
\* every item it had found; a reset without wipe-all empties admin_hash,
\* sets mode SETUP and leaves catalog and roster, in memory and on flash, as
\* they are; a wipe-all reset restarts over a flash with no catalog and no
\* roster and with a configuration, if any, of empty admin_hash and mode
\* SETUP.
C28_TeamsStay ==
    [][/\ (WipingAll \/ WipingAll') \/ Survives(RosterAnswered, RosterNow')
       /\ (pc = "idle" /\ pc' = "restart" /\ ~WipingAll')
            => /\ g_config'.admin_hash = <<>>
               /\ g_config'.mode = MODE_SETUP
               /\ g_checkpoints' = g_checkpoints
               /\ g_teams' = g_teams
               /\ fs'[FILE_CHECKPOINTS] = fs[FILE_CHECKPOINTS]
               /\ fs'[FILE_TEAMS] = fs[FILE_TEAMS]
       /\ (WipingAll /\ pc' = "off")
            => /\ loadCheckpoints(fs') = <<>>
               /\ loadTeams(fs') = <<>>
               /\ fs'[FILE_CONFIG].kind = "full"
                    => /\ Member(readDocument(fs', FILE_CONFIG), "admin_hash") = JStr(<<>>)
                       /\ Member(readDocument(fs', FILE_CONFIG), "mode") = JStr("setup")]_vars

---------------------------------------------------------------------------
(* Refused requests.                                                       *)

\* the answers that report a validation, not-found or conflict outcome
RefusalKinds ==
    {"bad_json", "weak_pass", "already_configured", "empty_ssid", "bad_fields",
     "exists", "auth", "team_not_found", "empty_token", "no_match", "duplicate"}

\* the requests of the bench that the device has to refuse: a catalog that
\* does not parse or is no array, a mode that is neither setup nor game, and,
\* with no team registered, every register, login and submission of the bench
BenchRefused ==
    \/ \E body \in {BadJson, BenchNoArray} :
         \E rs \in Draws(body) : AdminCheckpoints(BenchAuth, body, rs)
    \/ AdminMode(BenchAuth, JObj([mode |-> JStr("party")]))
    \/ \E body \in BenchRegisterBodies : Register(body, 1)
    \/ \E body \in BenchLoginBodies : Login(body)
    \/ \E body \in SubmitBodies : SubmitCode(body)

\* C29: a request that the device has to refuse is answered, in the step
\* that takes it, with a validation, not-found or conflict outcome, and a
\* step that gives such an answer leaves configuration, catalog and roster,
\* in memory and on flash, as they were.
C29_RefusalsChangeNothing ==
    [][/\ BenchRefused => resp'.kind \in RefusalKinds
       /\ (resp' # resp /\ resp'.kind \in RefusalKinds)
            => UNCHANGED <<g_config, g_checkpoints, g_teams, fs, wr>>]_vars

---------------------------------------------------------------------------
(* Comparison of secrets.                                                  *)

\* C30: consttime_eq(a, b) returns true exactly when a and b have the same
\* length and the same content, and the body of its loop has run once for
\* every position up to the longer of the two lengths when it returns:
\* the number of comparison steps is a function of the two lengths alone.
C30_SecureEqual ==
    loc.fn = "returned"
    => /\ loc.result = (Len(loc.a) = Len(loc.b)
                        /\ \A i \in 1..Len(loc.a) : loc.a[i] = loc.b[i])
       /\ loc.steps = Max(Len(loc.a), Len(loc.b))
       /\ \A a \in CompareStrings, b \in CompareStrings :
            (Len(a) = Len(loc.a) /\ Len(b) = Len(loc.b))
            => consttime_steps(a, b, 1, 0) = loc.steps

\* two strings of different lengths that differ at their first position
\* have been compared in as many steps as the longer has characters
C30_Witness ==
    /\ loc.fn = "returned"
    /\ Len(loc.a) = MaxLen
    /\ Len(loc.b) = 1
    /\ loc.a[1] # loc.b[1]
    /\ ~loc.result
    /\ loc.steps = MaxLen

---------------------------------------------------------------------------
(* Mode transitions.                                                       *)

\* the handler of POST /api/admin/mode is inside switchAPNow
Switching == pc \in {"switchAP", "delay", "dnsStop", "softAP", "dnsStart"}

\* the network that goes with mode m
NetOf(m) == IF m = MODE_SETUP THEN "setup" ELSE "game"

---------------------------------------------------------------------------
(* The network on the air.                                                 *)

C33_GameNeedsSecret ==
    (pc = "idle" /\ g_config.mode = MODE_GAME) => Len(g_config.admin_hash) > 0

=============================================================================
